---- MODULE Spec2Model ----
(***************************************************************************)
(* PAION web player (paion_player.py): the integrity verifier of an AIFM   *)
(* archive (builtin_verify_aifm), the tri-state normalisation of a check   *)
(* list (normalize_verify), and the PaionState operations that call them   *)
(* (load_tracks, clear, get_track_info) behind the Flask handlers.         *)
(***************************************************************************)
EXTENDS Integers, Sequences, FiniteSets, TLC

(* ------------------------------ bounds -------------------------------- *)

\* cap on PaionState.playlist_version (an unbounded Python int)
MaxVersion == 2
\* longest result list the external verifier returns
MaxResults == 2

(* ----------------------------- constants ------------------------------ *)

MANIFEST == "manifest.json"
PAYLOAD == "payload/a.mp3"
\* the members a manifest may declare in integrity.hashed_files
Paths == {MANIFEST, PAYLOAD}
\* UPLOAD_DIR / secure_filename(f.filename)
TRACK == "a.aifm"

INTACT == "INTACT"
MANIFEST_WARN == "INTACT (MANIFEST WARN)"
TAMPERED == "TAMPERED"
ERROR == "ERROR"
UNKNOWN == "UNKNOWN"

(* --------------------- byte strings and digests ----------------------- *)

\* member contents: one-byte strings b"\x00" and b"\x01"
B0 == <<0>>
B1 == <<1>>

\* hashlib.sha256(data).hexdigest().lower(), abbreviated to its first four
\* hex digits
Sha256Hex(data) ==
    CASE data = B0 -> "6e34"
      [] data = B1 -> "4bf5"
      [] OTHER -> "e3b0"

\* Lower without the case folding
Lower_CaseSensitive(s) == s

\* str.lower() on the strings the model uses
Lower(s) ==
    CASE s = "SHA256" -> "sha256"
      [] s = "None" -> "none"
      [] s = "6E34" -> "6e34"
      [] s = "4BF5" -> "4bf5"
      [] OTHER -> s

(* --------------------------- archive model ---------------------------- *)

\* a zip member: absent from namelist(), present and readable, or present
\* with z.read() raising (bad CRC, truncated entry)
AbsentMember == [present |-> FALSE, readable |-> FALSE, data |-> <<>>]
CorruptMember == [present |-> TRUE, readable |-> FALSE, data |-> <<>>]
Member(data) == [present |-> TRUE, readable |-> TRUE, data |-> data]

\* the JSON value of meta["bytes"]: missing/null, an integer, or another type
NoBytes == [kind |-> "none", v |-> 0]
IntBytes(n) == [kind |-> "int", v |-> n]
StrBytes(n) == [kind |-> "str", v |-> n]

\* the JSON value of hashed_files[relpath]: an object with optional sha256 and
\* bytes (sha256 = "" stands for a missing key), or a non-object
Meta(sha, bytes) == [isdict |-> TRUE, sha256 |-> sha, bytes |-> bytes]
NonDictMeta == [isdict |-> FALSE, sha256 |-> "", bytes |-> NoBytes]

\* a declared entry together with the state of the member it names
Cases ==
    { [member |-> AbsentMember, meta |-> Meta("6e34", IntBytes(1))],
      [member |-> CorruptMember, meta |-> Meta("6e34", IntBytes(1))],
      [member |-> Member(B0), meta |-> Meta("6E34", IntBytes(1))],
      [member |-> Member(B0), meta |-> Meta("4bf5", IntBytes(2))],
      [member |-> Member(B0), meta |-> Meta("4bf5", IntBytes(1))],
      [member |-> Member(B0), meta |-> Meta("4bf5", StrBytes(2))],
      [member |-> Member(B0), meta |-> NonDictMeta] }

\* manifest.json was read before the loop, so its own entry is readable
CasesFor(p) ==
    IF p = MANIFEST
    THEN {c \in Cases : c.member.present /\ c.member.readable}
    ELSE Cases

Decl(p, c) == [relpath |-> p, case |-> c]

\* hashed_files as an insertion-ordered dict: one to two entries, distinct keys
Declarations ==
    LET One == { <<Decl(p, c)>> : p \in Paths, c \in Cases }
        Two == { <<Decl(x[1], x[2]), Decl(y[1], y[2])>> :
                   x \in Paths \X Cases, y \in Paths \X Cases }
    IN { d \in One \cup Two :
           /\ \A i \in 1..Len(d) : d[i].case \in CasesFor(d[i].relpath)
           /\ \A i, j \in 1..Len(d) : i # j => d[i].relpath # d[j].relpath }

Entries(d) ==
    [i \in 1..Len(d) |-> [relpath |-> d[i].relpath, meta |-> d[i].case.meta]]

\* members of an archive whose manifest declares d; an undeclared member is
\* present
MembersOf(d) ==
    [p \in Paths |->
        IF \E i \in 1..Len(d) : d[i].relpath = p
        THEN d[CHOOSE i \in 1..Len(d) : d[i].relpath = p].case.member
        ELSE Member(IF p = MANIFEST THEN B0 ELSE B1)]

\* manifest["integrity"]["algorithm"]: missing, or present with str(value)
NoAlgo == [present |-> FALSE, str |-> ""]
Algo(s) == [present |-> TRUE, str |-> s]

\* manifest["integrity"]["hashed_files"]: missing, a non-object, or an object
NoHashedFiles == [kind |-> "absent", entries |-> <<>>]
NonDictHashedFiles == [kind |-> "nondict", entries |-> <<>>]
HashedFiles(es) == [kind |-> "dict", entries |-> es]

\* the content of manifest.json: undecodable, a non-object, or an object whose
\* "integrity" is missing, a non-object, or an object
BadJson ==
    [parses |-> FALSE, isdict |-> FALSE, integrity |-> "absent",
     algorithm |-> NoAlgo, hashed_files |-> NoHashedFiles]
NonDictManifest == [BadJson EXCEPT !.parses = TRUE]
NoIntegrity == [NonDictManifest EXCEPT !.isdict = TRUE]
NonDictIntegrity == [NoIntegrity EXCEPT !.integrity = "nondict"]
Integrity(algo, hf) ==
    [parses |-> TRUE, isdict |-> TRUE, integrity |-> "dict",
     algorithm |-> algo, hashed_files |-> hf]

(* ---- JSON values of the manifest outside "integrity" (metadata) ---- *)

\* a JSON value: t is its type, v its str() for a scalar, d its items for an
\* object
JNull == [t |-> "null", v |-> "None", d |-> <<>>]
JStr(x) == [t |-> "str", v |-> x, d |-> <<>>]
JInt(x) == [t |-> "int", v |-> x, d |-> <<>>]
JDict(items) == [t |-> "dict", v |-> "{...}", d |-> items]
NoItems == [k \in {} |-> JNull]

\* bool(value)
Truthy(x) ==
    CASE x.t = "null" -> FALSE
      [] x.t = "str" -> x.v # ""
      [] x.t = "int" -> x.v # "0"
      [] OTHER -> DOMAIN x.d # {}

\* z.namelist() of an archive that holds only the members the verifier reads
NamesOf(members) ==
    SelectSeq(<<MANIFEST, PAYLOAD>>, LAMBDA p : members[p].present)

\* an archive: members and doc are what the verifier reads, tree is the
\* manifest outside "integrity", names is z.namelist()
Zip(members, doc) ==
    [zip |-> TRUE, members |-> members, doc |-> doc,
     tree |-> JDict(NoItems), names |-> NamesOf(members)]

\* a file that zipfile.ZipFile cannot open
NotZip ==
    [zip |-> FALSE, members |-> [p \in Paths |-> AbsentMember], doc |-> BadJson,
     tree |-> JDict(NoItems), names |-> <<>>]

Algorithms == {NoAlgo, Algo("sha256"), Algo("SHA256"), Algo("md5"), Algo("None")}

\* the uploaded files the model draws from
Archives ==
    {NotZip}
    \cup { Zip([p \in Paths |-> IF p = MANIFEST THEN m ELSE Member(B1)], BadJson) :
             m \in {AbsentMember, CorruptMember} }
    \cup { Zip(MembersOf(<<>>), doc) :
             doc \in {BadJson, NonDictManifest, NoIntegrity, NonDictIntegrity} }
    \cup { Zip(MembersOf(<<>>), Integrity(al, hf)) :
             al \in Algorithms,
             hf \in {NoHashedFiles, NonDictHashedFiles, HashedFiles(<<>>)} }
    \cup { Zip(MembersOf(d), Integrity(NoAlgo, HashedFiles(Entries(d)))) :
             d \in Declarations }
    \cup { Zip(MembersOf(d), Integrity(al, HashedFiles(Entries(d)))) :
             al \in {Algo("SHA256"), Algo("md5")},
             d \in {dd \in Declarations : Len(dd) = 1} }

(* ------------------------- builtin verifier --------------------------- *)

BuiltinCheck(ok, path, reason) == [ok |-> ok, path |-> path, reason |-> reason]

\* the except clause of builtin_verify_aifm: every exception raised inside the
\* try block replaces the whole result
BuiltinException(msg) ==
    [ok |-> FALSE, checks |-> <<BuiltinCheck(FALSE, "builtin_verify", msg)>>]

\* MissingManifest as a raised exception instead of a returned check
MissingManifest_Raised == BuiltinException("missing manifest.json")

MissingManifest ==
    [ok |-> FALSE,
     checks |-> <<BuiltinCheck(FALSE, MANIFEST, "missing manifest.json")>>]

\* integrity.get("algorithm", "sha256")
AlgorithmOf(doc) ==
    IF doc.isdict /\ doc.integrity = "dict" /\ doc.algorithm.present
    THEN doc.algorithm.str
    ELSE "sha256"

\* integrity.get("hashed_files", {})
HashedFilesOf(doc) ==
    IF doc.isdict /\ doc.integrity = "dict" /\ doc.hashed_files.kind # "absent"
    THEN doc.hashed_files
    ELSE HashedFiles(<<>>)

\* str(algo).lower() != "sha256"
UnsupportedAlgorithm(algo) == Lower(algo) # "sha256"

\* not isinstance(hashed_files, dict) or not hashed_files
UnusableHashedFiles(hf) == hf.kind # "dict" \/ hf.entries = <<>>

BytesMismatchReason(actual, expected) ==
    "bytes mismatch: " \o ToString(actual) \o " != " \o ToString(expected)

\* CheckEntry with the digest compared before the byte count
CheckEntry_DigestFirst(members, relpath, meta) ==
    IF ~members[relpath].present
    THEN BuiltinCheck(FALSE, relpath, "missing file")
    ELSE LET expected_hash == IF meta.isdict THEN Lower(meta.sha256) ELSE ""
             expected_bytes == IF meta.isdict THEN meta.bytes ELSE NoBytes
             data == members[relpath].data
             actual_bytes == Len(data)
             h == Lower(Sha256Hex(data))
         IN IF expected_hash # "" /\ h # expected_hash
            THEN BuiltinCheck(FALSE, relpath, "sha256 mismatch")
            ELSE IF expected_bytes.kind = "int" /\ actual_bytes # expected_bytes.v
                 THEN BuiltinCheck(FALSE, relpath,
                                   BytesMismatchReason(actual_bytes, expected_bytes.v))
                 ELSE BuiltinCheck(TRUE, relpath, "")

\* the body of the for loop for one (relpath, meta), the member being readable:
\* the check it appends
CheckEntry(members, relpath, meta) ==
    IF ~members[relpath].present
    THEN BuiltinCheck(FALSE, relpath, "missing file")
    ELSE LET expected_hash == IF meta.isdict THEN Lower(meta.sha256) ELSE ""
             expected_bytes == IF meta.isdict THEN meta.bytes ELSE NoBytes
             data == members[relpath].data
             actual_bytes == Len(data)
             h == Lower(Sha256Hex(data))
         IN IF expected_bytes.kind = "int" /\ actual_bytes # expected_bytes.v
            THEN BuiltinCheck(FALSE, relpath,
                              BytesMismatchReason(actual_bytes, expected_bytes.v))
            ELSE IF expected_hash # "" /\ h # expected_hash
                 THEN BuiltinCheck(FALSE, relpath, "sha256 mismatch")
                 ELSE BuiltinCheck(TRUE, relpath, "")

\* z.read(relpath) raises inside the loop
ReadRaises(members, relpath) ==
    members[relpath].present /\ ~members[relpath].readable

\* record_fail(path, reason), and the plain append of a passing check: acc is
\* the loop's state (checks, non_manifest_failed, manifest_failed)
Record(acc, check) ==
    [checks |-> Append(acc.checks, check),
     non_manifest_failed |->
         acc.non_manifest_failed \/ (~check.ok /\ check.path # MANIFEST),
     manifest_failed |->
         acc.manifest_failed \/ (~check.ok /\ check.path = MANIFEST)]

\* the return statements after the loop
LoopResult(acc) ==
    IF acc.non_manifest_failed
    THEN [ok |-> FALSE, checks |-> acc.checks]
    ELSE IF acc.manifest_failed
    THEN [ok |-> TRUE, checks |-> acc.checks]
    ELSE [ok |-> TRUE, checks |-> acc.checks]

\* the for loop from entry i on; a raising read leaves the loop through the
\* except clause. Every key of a parsed JSON object is a str, so the
\* "invalid path key" branch is never taken.
RECURSIVE VerifyLoop(_, _, _, _)
VerifyLoop(members, entries, i, acc) ==
    IF i > Len(entries)
    THEN LoopResult(acc)
    ELSE IF ReadRaises(members, entries[i].relpath)
         THEN BuiltinException("Bad CRC-32 for file")
         ELSE VerifyLoop(members, entries, i + 1,
                         Record(acc, CheckEntry(members, entries[i].relpath,
                                                entries[i].meta)))

builtin_verify_aifm(a) ==
    IF ~a.zip
    THEN BuiltinException("File is not a zip file")
    ELSE IF ~a.members[MANIFEST].present
    THEN MissingManifest
    ELSE IF ~a.members[MANIFEST].readable
    THEN BuiltinException("Bad CRC-32 for file")
    ELSE IF ~a.doc.parses
    THEN BuiltinException("Expecting value")
    ELSE IF a.doc.isdict /\ a.doc.integrity = "nondict"
    THEN BuiltinException("object has no attribute get")
    ELSE LET algo == AlgorithmOf(a.doc)
             hashed_files == HashedFilesOf(a.doc)
         IN IF UnsupportedAlgorithm(algo)
            THEN [ok |-> FALSE,
                  checks |-> <<BuiltinCheck(FALSE, "integrity.algorithm",
                                            "unsupported algorithm: " \o algo)>>]
            ELSE IF UnusableHashedFiles(hashed_files)
            THEN [ok |-> FALSE,
                  checks |-> <<BuiltinCheck(FALSE, "integrity.hashed_files",
                                            "missing/empty hashed_files")>>]
            ELSE VerifyLoop(a.members, hashed_files.entries, 1,
                            [checks |-> <<>>, non_manifest_failed |-> FALSE,
                             manifest_failed |-> FALSE])

(* --------------------------- normalisation ---------------------------- *)

\* normalize_verify without the manifest-only rule: the verifier's flag decides
normalize_verify_NoWarnRule(details, original_ok) ==
    LET Bad(d) == ~d.ok /\ d.path # MANIFEST
    IN IF SelectSeq(details, Bad) # <<>>
       THEN [ok |-> FALSE, status |-> TAMPERED, manifest_warn |-> FALSE]
       ELSE [ok |-> original_ok,
             status |-> IF original_ok THEN INTACT ELSE TAMPERED,
             manifest_warn |-> FALSE]

\* normalize_verify testing manifest_fails before non_manifest_fails
normalize_verify_ManifestFirst(details, original_ok) ==
    LET ManifestFail(d) == ~d.ok /\ d.path = MANIFEST
        OtherFail(d) == ~d.ok /\ d.path # MANIFEST
    IN IF SelectSeq(details, ManifestFail) # <<>>
       THEN [ok |-> TRUE, status |-> MANIFEST_WARN, manifest_warn |-> TRUE]
       ELSE IF SelectSeq(details, OtherFail) # <<>>
       THEN [ok |-> FALSE, status |-> TAMPERED, manifest_warn |-> FALSE]
       ELSE [ok |-> original_ok,
             status |-> IF original_ok THEN INTACT ELSE TAMPERED,
             manifest_warn |-> FALSE]

\* normalize_verify ignoring the verifier's flag when nothing fails
normalize_verify_IgnoreFlag(details, original_ok) ==
    LET ManifestFail(d) == ~d.ok /\ d.path = MANIFEST
        OtherFail(d) == ~d.ok /\ d.path # MANIFEST
    IN IF SelectSeq(details, OtherFail) # <<>>
       THEN [ok |-> FALSE, status |-> TAMPERED, manifest_warn |-> FALSE]
       ELSE IF SelectSeq(details, ManifestFail) # <<>>
       THEN [ok |-> TRUE, status |-> MANIFEST_WARN, manifest_warn |-> TRUE]
       ELSE [ok |-> TRUE, status |-> INTACT, manifest_warn |-> FALSE]

normalize_verify(details, original_ok) ==
    LET IsFail(d) == ~d.ok
        IsNonManifest(f) == f.path # MANIFEST
        IsManifest(f) == f.path = MANIFEST
        fails == SelectSeq(details, IsFail)
        non_manifest_fails == SelectSeq(fails, IsNonManifest)
        manifest_fails == SelectSeq(fails, IsManifest)
        passthrough ==
            [ok |-> original_ok,
             status |-> IF original_ok THEN INTACT ELSE TAMPERED,
             manifest_warn |-> FALSE]
    IN IF fails = <<>>
       THEN passthrough
       ELSE IF non_manifest_fails # <<>>
       THEN [ok |-> FALSE, status |-> TAMPERED, manifest_warn |-> FALSE]
       ELSE IF manifest_fails # <<>>
       THEN [ok |-> TRUE, status |-> MANIFEST_WARN, manifest_warn |-> TRUE]
       ELSE passthrough

(* ------------------------------ strings ------------------------------- *)

Char(s, i) == SubSeq(s, i, i)

UPPERCASE == "ABCDEFGHIJKLMNOPQRSTUVWXYZ"
LOWERCASE == "abcdefghijklmnopqrstuvwxyz"

\* the characters of member names, in code point order
CODEPOINTS == "./0123456789" \o UPPERCASE \o "_" \o LOWERCASE

Chars == {Char(CODEPOINTS, i) : i \in 1..Len(CODEPOINTS)}

\* ord(c), up to the offset
Ord == [c \in Chars |-> CHOOSE i \in 1..Len(CODEPOINTS) : Char(CODEPOINTS, i) = c]

LowerChar ==
    [c \in Chars |->
        IF \E i \in 1..Len(UPPERCASE) : Char(UPPERCASE, i) = c
        THEN Char(LOWERCASE, CHOOSE i \in 1..Len(UPPERCASE) : Char(UPPERCASE, i) = c)
        ELSE c]

\* s.lower()
RECURSIVE StrLower(_)
StrLower(s) ==
    IF s = "" THEN "" ELSE LowerChar[Char(s, 1)] \o StrLower(Tail(s))

\* s.startswith(p), s.endswith(p), h in s
StartsWith(s, p) == Len(p) <= Len(s) /\ SubSeq(s, 1, Len(p)) = p
EndsWith(s, p) == Len(p) <= Len(s) /\ SubSeq(s, Len(s) - Len(p) + 1, Len(s)) = p
Contains(s, h) ==
    \E i \in 1..(Len(s) - Len(h) + 1) : SubSeq(s, i, i + Len(h) - 1) = h

\* a < b on str: lexicographic by code point
RECURSIVE StrLess(_, _)
StrLess(a, b) ==
    IF b = "" THEN FALSE
    ELSE IF a = "" THEN TRUE
    ELSE IF Char(a, 1) = Char(b, 1) THEN StrLess(Tail(a), Tail(b))
    ELSE Ord[Char(a, 1)] < Ord[Char(b, 1)]

\* the positions of character c in s, and the last of a set of positions
Positions(s, c) == {i \in 1..Len(s) : Char(s, i) = c}
LastIn(S) == CHOOSE i \in S : \A j \in S : j <= i

\* the final component of a path, given the positions of its slashes
AfterSlashes(s, slashes) ==
    IF slashes = {} THEN s ELSE SubSeq(s, LastIn(slashes) + 1, Len(s))
FinalComponent(s) == AfterSlashes(s, Positions(s, "/"))

\* the suffix of a final component: from its last dot on, empty when there
\* is no dot, when the name starts with its only dot or when it ends with a dot
SuffixAt(name, last) ==
    IF last > 1 /\ last < Len(name) THEN SubSeq(name, last, Len(name)) ELSE ""
SuffixFrom(name, dots) == IF dots = {} THEN "" ELSE SuffixAt(name, LastIn(dots))
NameSuffix(name) == SuffixFrom(name, Positions(name, "."))

\* Path(s).suffix
PathSuffix(s) == NameSuffix(FinalComponent(s))

(* --------------------------- asset selection -------------------------- *)

IMG_EXTS == <<".jpg", ".jpeg", ".png", ".webp">>

Range(seq) == {seq[i] : i \in 1..Len(seq)}

\* exts_priority.index(ext), 999 when absent
IndexOf(exts_priority, ext) ==
    IF \E i \in 1..Len(exts_priority) : exts_priority[i] = ext
    THEN (CHOOSE i \in 1..Len(exts_priority) : exts_priority[i] = ext) - 1
    ELSE 999

ExtRank(n, exts_priority) == IndexOf(exts_priority, PathSuffix(StrLower(n)))

\* (ra, la) < (rb, lb) on tuples
PairLess(ra, la, rb, lb) == ra < rb \/ (ra = rb /\ StrLess(la, lb))

\* (ext_rank(a), a.lower()) < (ext_rank(b), b.lower())
KeyLess(a, b, exts_priority) ==
    PairLess(ExtRank(a, exts_priority), StrLower(a),
             ExtRank(b, exts_priority), StrLower(b))

\* the test a member n, lowercased to ln, passes to become a candidate
IsCandidate(n, ln, prefixes, exts_priority) ==
    /\ n # "" /\ ~EndsWith(n, "/")
    /\ \E p \in Range(prefixes) : StartsWith(ln, p)
    /\ PathSuffix(ln) \in Range(exts_priority)

\* the candidates of choose_member_by_ext, in archive order
CandidatesOf(namelist, prefixes, exts_priority) ==
    SelectSeq(namelist, LAMBDA n : IsCandidate(n, StrLower(n), prefixes, exts_priority))

\* hinted if hinted else candidates
HintedOr(hinted, candidates) == IF hinted # <<>> THEN hinted ELSE candidates

\* PoolOf taking every candidate, hinted or not
PoolOf_NoHints(candidates, hint_substrings) == candidates

\* pool = hinted if hinted else candidates
PoolOf(candidates, hint_substrings) ==
    HintedOr(SelectSeq(candidates,
                       LAMBDA n : /\ hint_substrings # <<>>
                                  /\ \E h \in Range(hint_substrings) :
                                         Contains(StrLower(n), h)),
             candidates)

\* FirstSorted without the sort: the first of the pool in archive order
FirstSorted_ArchiveOrder(pool, exts_priority) ==
    IF pool = <<>> THEN "" ELSE pool[1]

\* sorted(pool, key=...)[0], "" standing for None; sorted is stable, so among
\* equal keys the earliest member of the pool comes first
FirstSorted(pool, exts_priority) ==
    IF pool = <<>> THEN ""
    ELSE pool[CHOOSE i \in 1..Len(pool) :
                \A j \in 1..Len(pool) :
                    /\ ~KeyLess(pool[j], pool[i], exts_priority)
                    /\ j < i => KeyLess(pool[i], pool[j], exts_priority)]

\* choose_member_by_ext once the candidates are collected
ChooseAmong(candidates, exts_priority, hint_substrings) ==
    IF candidates = <<>> THEN ""
    ELSE FirstSorted(PoolOf(candidates, hint_substrings), exts_priority)

choose_member_by_ext(namelist, prefixes, exts_priority, hint_substrings) ==
    ChooseAmong(CandidatesOf(namelist, prefixes, exts_priority),
                exts_priority, hint_substrings)

\* Preferred with the bare paths before the metadata/ ones
Preferred_BareFirst ==
    <<"cover.png", "cover.jpg", "cover.jpeg", "cover.webp",
      "metadata/cover.png", "metadata/cover.jpg", "metadata/cover.jpeg",
      "metadata/cover.webp">>

Preferred ==
    <<"metadata/cover.png", "metadata/cover.jpg", "metadata/cover.jpeg",
      "metadata/cover.webp",
      "cover.png", "cover.jpg", "cover.jpeg", "cover.webp">>

\* the test of the fallback loop on a member lowercased to ln
IsImage(ln) ==
    /\ \E e \in Range(IMG_EXTS) : EndsWith(ln, e)
    /\ (~Contains(ln, "/") \/ StartsWith(ln, "metadata/"))

\* the first preferred path among hits, else the first image, else None
CoverAmong(hits, images) ==
    IF hits # <<>> THEN hits[1] ELSE IF images # <<>> THEN images[1] ELSE ""

find_cover_member(namelist) ==
    CoverAmong(SelectSeq(Preferred, LAMBDA p : p \in Range(namelist)),
               SelectSeq(namelist, LAMBDA n : IsImage(StrLower(n))))

find_declaration_member_anyname(namelist) ==
    choose_member_by_ext(namelist, <<"metadata/">>, <<".pdf", ".txt">>,
                         <<"declar", "legal", "license", "statement">>)

find_prompt_member_anyname(namelist) ==
    choose_member_by_ext(namelist, <<"metadata/">>, <<".txt">>,
                         <<"prompt", "suno", "udio", "instruction">>)

find_lyrics_member_anyname(namelist) ==
    choose_member_by_ext(namelist, <<"metadata/">>, <<".txt">>,
                         <<"lyric", "lyrics", "words", "verse">>)

AssetKinds == {"cover", "declaration", "prompt", "lyrics", "manifest"}

pick_asset_member(namelist, kind) ==
    CASE kind = "cover" -> find_cover_member(namelist)
      [] kind = "declaration" -> find_declaration_member_anyname(namelist)
      [] kind = "prompt" -> find_prompt_member_anyname(namelist)
      [] kind = "lyrics" -> find_lyrics_member_anyname(namelist)
      [] OTHER -> IF MANIFEST \in Range(namelist) THEN MANIFEST ELSE ""

\* s.lstrip(".")
RECURSIVE LStripDot(_)
LStripDot(s) ==
    IF s # "" /\ Char(s, 1) = "." THEN LStripDot(Tail(s)) ELSE s

\* info["assets"] as get_track_info initialises it
DefaultAssets ==
    [k \in AssetKinds |->
        [exists |-> FALSE, member |-> "", ext |-> IF k = "manifest" THEN "json" ELSE ""]]

\* info["assets"][k] once pick_asset_member returned member
AssetEntry(k, member) ==
    IF member # ""
    THEN [exists |-> TRUE, member |-> member,
          ext |-> IF k # "manifest"
                  THEN StrLower(LStripDot(PathSuffix(member)))
                  ELSE "json"]
    ELSE DefaultAssets[k]

\* info["assets"] after the loop over the kinds, for an archive that opens
\* and lists namelist
AssetsFor(namelist) ==
    [k \in AssetKinds |-> AssetEntry(k, pick_asset_member(namelist, k))]

\* the longest list of extra members an archive carries
MaxNames == 3

\* member names next to manifest.json: documents and images under metadata/,
\* at the top level and elsewhere, in either case
DocNames ==
    {"metadata/decl.txt", "metadata/decl.pdf", "metadata/a.txt",
     "metadata/my_lyrics.txt", "metadata/Legal.TXT", "metadata/lyrics/b.txt",
     "Metadata/Prompt.txt"}

ImageNames ==
    {"metadata/cover.jpg", "cover.png", "cover.webp", "Art.PNG",
     "extra/pic.png", "metadata/pic.webp"}

\* the lists of distinct names of at most MaxNames members
ListsOver(names) ==
    {l \in UNION {[1..n -> names] : n \in 0..MaxNames} :
        \A i, j \in 1..Len(l) : i # j => l[i] # l[j]}

NameLists == ListsOver(DocNames) \cup ListsOver(ImageNames)

WithNames(a, l) == [a EXCEPT !.names = a.names \o l]

AssetArchives ==
    {WithNames(Zip(MembersOf(<<>>), NoIntegrity), l) : l \in NameLists}
        \cup {NotZip}

(* --------------------------- manifest fields -------------------------- *)

\* read_manifest_from_aifm inside the try of get_track_info: {} when the
\* archive cannot be opened, manifest.json is absent, unreadable or
\* undecodable; a manifest that is not an object resolves no path
ManifestOf(a) ==
    IF a.zip /\ a.members[MANIFEST].present /\ a.members[MANIFEST].readable
       /\ a.doc.parses /\ a.doc.isdict
    THEN a.tree
    ELSE JDict(NoItems)

\* safe_get(d, path, default=None), path being path.split(".")
RECURSIVE safe_get(_, _)
safe_get(d, path) ==
    IF path = <<>>
    THEN d
    ELSE IF d.t = "dict" /\ Head(path) \in DOMAIN d.d
         THEN safe_get(d.d[Head(path)], Tail(path))
         ELSE JNull

\* a or b
Or_NotNone(a, b) == IF a.t # "null" THEN a ELSE b
Or(a, b) == IF Truthy(a) THEN a ELSE b

\* safe_get(manifest, p1) or safe_get(manifest, p2) or ... or default
RECURSIVE FirstOf(_, _, _)
FirstOf(manifest, paths, default) ==
    IF paths = <<>>
    THEN default
    ELSE Or(safe_get(manifest, Head(paths)), FirstOf(manifest, Tail(paths), default))

PLACEHOLDER == "-"

\* the candidate paths of each field, in the order of the or-chain
Candidates ==
    [author |-> << <<"creator", "name">>, <<"author">> >>,
     ai_system |-> << <<"origin", "ai_platform">>, <<"ai", "system">>, <<"ai_system">> >>,
     tier |-> << <<"verification", "tier">>, <<"tier">> >>,
     mode |-> << <<"mode">>, <<"aifx", "governance", "mode">> >>,
     origin_url |-> << <<"origin", "primary_url">>, <<"origin_url">>, <<"origin", "url">> >>]

FieldNames == DOMAIN Candidates

DefaultOf(f) == IF f = "origin_url" THEN "" ELSE PLACEHOLDER

\* info["fields"].update(...): str(x) if x else default
FieldsOf(manifest) ==
    [f \in FieldNames |->
        LET x == FirstOf(manifest, Candidates[f], JStr(DefaultOf(f)))
        IN IF Truthy(x) THEN x.v ELSE DefaultOf(f)]

\* what a manifest may hold at candidate i of a field: nothing, null, an
\* empty string, zero, or a name
JMissing == [t |-> "missing", v |-> "", d |-> <<>>]
ValueOptions(i) ==
    {JMissing, JNull, JStr(""), JInt("0"), JStr("v" \o ToString(i))}

\* the object holding vals[i] at paths[i] for every i that is not missing,
\* from the keys below prefix on
RECURSIVE TreeAt(_, _, _)
TreeAt(paths, vals, prefix) ==
    LET n == Len(prefix)
        below == {i \in 1..Len(paths) :
                    /\ vals[i].t # "missing"
                    /\ Len(paths[i]) > n
                    /\ SubSeq(paths[i], 1, n) = prefix}
        keys == {paths[i][n + 1] : i \in below}
    IN JDict([k \in keys |->
                IF \E i \in below : paths[i] = Append(prefix, k)
                THEN vals[CHOOSE i \in below : paths[i] = Append(prefix, k)]
                ELSE TreeAt(paths, vals, Append(prefix, k))])

\* the manifests the model draws from: every assignment of ValueOptions to the
\* candidates of one field, and manifests whose intermediate key is no object
Trees ==
    UNION { { TreeAt(Candidates[f], vals, <<>>) :
                vals \in { vs \in [1..Len(Candidates[f]) ->
                                     UNION {ValueOptions(i) : i \in 1..3}] :
                             \A i \in DOMAIN vs : vs[i] \in ValueOptions(i) } } :
            f \in FieldNames }
    \cup { JDict([k \in {"creator", "author"} |->
                    IF k = "creator" THEN x ELSE JStr("v2")]) :
             x \in {JNull, JStr("v1"), JDict(NoItems)} }

WithTree(a, tree) == [a EXCEPT !.tree = tree]

FieldArchives ==
    { WithTree(Zip(MembersOf(<<>>), NoIntegrity), t) : t \in Trees }
    \cup { WithTree(Zip(MembersOf(<<>>), doc), TreeAt(Candidates.author,
                                                     <<JStr("v1"), JStr("v2")>>, <<>>)) :
             doc \in {BadJson, NonDictManifest} }
    \cup {NotZip}

\* the member lists of the archives the model draws from, and the assets
\* resolved for each of them
Listings == {a.names : a \in Archives \cup FieldArchives \cup AssetArchives}
Resolution == [l \in Listings |-> AssetsFor(l)]

\* info["assets"] of get_track_info; an archive that cannot be opened leaves
\* the defaults
AssetsOf(a) == IF a.zip THEN Resolution[a.names] ELSE DefaultAssets

(* ------------------------- external verifier -------------------------- *)

\* what VERIFY_FN(aifm_path) does: raises, returns a value that cannot be
\* unpacked or iterated, or returns (ok, results)
ResultObjects ==
    { [ok |-> o, path |-> p, reason |-> IF o THEN "" ELSE "mismatch"] :
        o \in BOOLEAN, p \in Paths }

ResultLists == UNION { [1..n -> ResultObjects] : n \in 0..MaxResults }

ExternalReturns ==
    { [kind |-> k, ok |-> FALSE, results |-> <<>>] : k \in {"raises", "garbage"} }
    \cup { [kind |-> "returns", ok |-> o, results |-> rs] :
             o \in BOOLEAN, rs \in ResultLists }

ExceptionMessage(r) ==
    IF r.kind = "raises" THEN "verifier failed"
    ELSE "cannot unpack non-iterable NoneType object"

(* ------------------------------ PaionState ---------------------------- *)

VARIABLES
    files,              \* UPLOAD_DIR: file name -> archive content
    VERIFY_FN,          \* "external" when verify_aifm.py was imported, else "none"
    tracks,             \* PaionState.tracks
    playlist_version,   \* PaionState.playlist_version
    info_cache,         \* PaionState.info_cache: path -> info
    call,               \* the verifier invocation of the last request, if any
    response,           \* what the last request returned
    threads             \* the request each server thread is in, and its locals

vars ==
    <<files, VERIFY_FN, tracks, playlist_version, info_cache, call, response, threads>>

\* the threads app.run(threaded=True) serves requests on
MaxThreads == 2
Threads == 1..MaxThreads

NoInfo == [none |-> TRUE]
IdleThread == [pc |-> "idle", index |-> 0, aifm |-> "", info |-> NoInfo]

EmptyMap == [p \in {} |-> TRUE]

NoCall == [engine |-> "none"]
NoResponse == [kind |-> "none"]
Http(code) == [kind |-> "error", code |-> code]
Ok200 == [kind |-> "ok"]
InfoResponse(info) == [kind |-> "info", info |-> info]

clamp(n, lo, hi) ==
    LET m == IF hi < n THEN hi ELSE n
    IN IF lo > m THEN lo ELSE m

\* details = [{"ok": .., "path": .., "reason": ..} for r in results]
DetailsOf(results) ==
    [i \in 1..Len(results) |->
        [ok |-> results[i].ok, path |-> results[i].path, reason |-> results[i].reason]]

Verify(ok, status, details, engine) ==
    [ok |-> ok, status |-> status, details |-> details,
     available |-> TRUE, engine |-> engine]

\* get_track_info, the VERIFY_FN is None branch
BuiltinInfo(a) ==
    LET r == builtin_verify_aifm(a)
        details == DetailsOf(r.checks)
        norm == normalize_verify(details, r.ok)
    IN [verify |-> Verify(norm.ok, norm.status, details, "builtin")]

\* VerifierError reporting the failure as tamper evidence
VerifierError_Tampered(msg) ==
    [verify |-> Verify(FALSE, TAMPERED,
                       <<[ok |-> FALSE, path |-> "verify_aifm.py", reason |-> msg]>>,
                       "verify_aifm.py")]

\* get_track_info, the except clause of the external branch
VerifierError(msg) ==
    [verify |-> Verify(FALSE, ERROR,
                       <<[ok |-> FALSE, path |-> "verify_aifm.py", reason |-> msg]>>,
                       "verify_aifm.py")]

\* get_track_info, the external branch
ExternalInfo(r) ==
    IF r.kind # "returns"
    THEN VerifierError(ExceptionMessage(r))
    ELSE LET details == DetailsOf(r.results)
             norm == normalize_verify(details, r.ok)
         IN [verify |-> Verify(norm.ok, norm.status, details, "verify_aifm.py")]

Init ==
    /\ files = EmptyMap
    /\ VERIFY_FN \in {"none", "external"}
    /\ tracks = <<>>
    /\ playlist_version = 0
    /\ info_cache = EmptyMap
    /\ call = NoCall
    /\ response = NoResponse
    /\ threads = [t \in Threads |-> IdleThread]

\* PaionState.get_track_info(aifm_path) on a cache miss, with the verifier's
\* behaviour r when one is configured
get_track_info_miss(aifm_path, r) ==
    LET verified == IF VERIFY_FN = "external"
                    THEN ExternalInfo(r)
                    ELSE BuiltinInfo(files[aifm_path])
        info == [fields |-> FieldsOf(ManifestOf(files[aifm_path])),
                 verify |-> verified.verify,
                 assets |-> AssetsOf(files[aifm_path])]
    IN /\ info_cache' = [p \in DOMAIN info_cache \cup {aifm_path} |->
                            IF p = aifm_path THEN info ELSE info_cache[p]]
       /\ call' = IF VERIFY_FN = "external"
                  THEN [engine |-> "external", ret |-> r]
                  ELSE LET b == builtin_verify_aifm(files[aifm_path])
                       IN [engine |-> "builtin",
                           ret |-> [kind |-> "returns", ok |-> b.ok,
                                    results |-> b.checks]]
       /\ response' = InfoResponse(info)
       /\ UNCHANGED threads

\* GET /api/track_info/<index>
api_track_info(index) ==
    /\ IF tracks = <<>>
       THEN /\ response' = Http(404)
            /\ call' = NoCall
            /\ UNCHANGED <<info_cache, threads>>
       ELSE LET aifm == tracks[clamp(index, 0, Len(tracks) - 1) + 1]
            IN IF aifm \in DOMAIN info_cache
               THEN /\ response' = InfoResponse(info_cache[aifm])
                    /\ call' = NoCall
                    /\ UNCHANGED <<info_cache, threads>>
               ELSE IF VERIFY_FN = "external"
                    THEN \E r \in ExternalReturns : get_track_info_miss(aifm, r)
                    ELSE get_track_info_miss(aifm, NoCall)
    /\ UNCHANGED <<files, VERIFY_FN, tracks, playlist_version>>

\* POST /api/load_upload with one .aifm file of content a: save it, then
\* PaionState.load_tracks(sorted(saved))
api_load_upload(a) ==
    /\ playlist_version < MaxVersion
    /\ files' = [p \in {TRACK} |-> a]
    /\ tracks' = <<TRACK>>
    /\ playlist_version' = playlist_version + 1
    /\ info_cache' = EmptyMap
    /\ call' = NoCall
    /\ response' = Ok200
    /\ UNCHANGED <<VERIFY_FN, threads>>

\* POST /api/load_upload without any .aifm file
api_load_upload_none ==
    /\ response' = Http(400)
    /\ call' = NoCall
    /\ UNCHANGED <<files, VERIFY_FN, tracks, playlist_version, info_cache, threads>>

\* POST /api/clear: PaionState.clear()
api_clear ==
    /\ playlist_version < MaxVersion
    /\ tracks' = <<>>
    /\ playlist_version' = playlist_version + 1
    /\ info_cache' = EmptyMap
    /\ call' = NoCall
    /\ response' = Ok200
    /\ UNCHANGED <<files, VERIFY_FN, threads>>

Next ==
    \/ \E index \in -1..1 : api_track_info(index)
    \/ \E a \in Archives : api_load_upload(a)
    \/ api_load_upload_none
    \/ api_clear

Spec == Init /\ [][Next]_vars

\* the same requests, verify_aifm.py being absent, on archives that differ in
\* the metadata of their manifest
InitBuiltin == Init /\ VERIFY_FN = "none"

NextFields ==
    \/ \E index \in -1..1 : api_track_info(index)
    \/ \E a \in FieldArchives : api_load_upload(a)
    \/ api_load_upload_none
    \/ api_clear

SpecFields == InitBuiltin /\ [][NextFields]_vars

\* the player with one uploaded archive in its playlist
InitAssets ==
    /\ files \in [{TRACK} -> AssetArchives]
    /\ VERIFY_FN = "none"
    /\ tracks = <<TRACK>>
    /\ playlist_version = 1
    /\ info_cache = EmptyMap
    /\ call = NoCall
    /\ response = Ok200
    /\ threads = [t \in Threads |-> IdleThread]

NextAssets ==
    \/ \E index \in -1..1 : api_track_info(index)
    \/ api_load_upload_none
    \/ api_clear

SpecAssets == InitAssets /\ [][NextAssets]_vars

(* ------------------- requests on concurrent threads ------------------- *)

\* app.run(threaded=True) serves every request on a thread of its own and
\* PaionState holds no lock: a handler is a sequence of steps, each reading or
\* writing one attribute of the shared state, and the steps of different
\* threads interleave

\* the uploads of the concurrent runs: an archive that verifies and a file
\* that is no archive
ConcArchives == {Zip(MembersOf(<<>>), NoIntegrity), NotZip}

\* the info get_track_info builds for content a when VERIFY_FN is None
InfoOf(a) ==
    [fields |-> FieldsOf(ManifestOf(a)),
     verify |-> BuiltinInfo(a).verify,
     assets |-> AssetsOf(a)]

At(t, pc) == threads[t].pc = pc
Goto(t, pc) == [threads EXCEPT ![t].pc = pc]
Return(t) == [threads EXCEPT ![t] = IdleThread]

\* load_tracks and clear calls that have not yet bumped playlist_version
Pending == Cardinality({t \in Threads : threads[t].pc \in {"tracks", "bump"}})

\* GET /api/track_info/<index>: if not state.tracks
ti_check(t, index) ==
    /\ At(t, "idle")
    /\ IF tracks = <<>>
       THEN response' = Http(404) /\ UNCHANGED threads
       ELSE /\ threads' = [threads EXCEPT ![t].pc = "clamp", ![t].index = index]
            /\ UNCHANGED response
    /\ UNCHANGED <<files, VERIFY_FN, tracks, playlist_version, info_cache, call>>

\* index = clamp(index, 0, len(state.tracks) - 1)
ti_clamp(t) ==
    /\ At(t, "clamp")
    /\ threads' = [threads EXCEPT
                     ![t].pc = "read",
                     ![t].index = clamp(threads[t].index, 0, Len(tracks) - 1)]
    /\ UNCHANGED <<files, VERIFY_FN, tracks, playlist_version, info_cache, call, response>>

\* aifm = state.tracks[index]; an IndexError leaves the handler and the
\* server answers 500
ti_read(t) ==
    /\ At(t, "read")
    /\ IF threads[t].index < Len(tracks)
       THEN /\ threads' = [threads EXCEPT ![t].pc = "lookup",
                                          ![t].aifm = tracks[threads[t].index + 1]]
            /\ UNCHANGED response
       ELSE /\ threads' = Return(t)
            /\ response' = Http(500)
    /\ UNCHANGED <<files, VERIFY_FN, tracks, playlist_version, info_cache, call>>

\* get_track_info: if aifm_path in self.info_cache
gti_lookup(t) ==
    /\ At(t, "lookup")
    /\ threads' = Goto(t, IF threads[t].aifm \in DOMAIN info_cache THEN "hit" ELSE "compute")
    /\ UNCHANGED <<files, VERIFY_FN, tracks, playlist_version, info_cache, call, response>>

\* return self.info_cache[aifm_path]; a KeyError leaves the handler
gti_hit(t) ==
    /\ At(t, "hit")
    /\ response' = IF threads[t].aifm \in DOMAIN info_cache
                   THEN InfoResponse(info_cache[threads[t].aifm])
                   ELSE Http(500)
    /\ threads' = Return(t)
    /\ UNCHANGED <<files, VERIFY_FN, tracks, playlist_version, info_cache, call>>

\* the body of get_track_info: read the archive, build the info
gti_compute(t) ==
    /\ At(t, "compute")
    /\ threads' = [threads EXCEPT ![t].pc = "store",
                                  ![t].info = InfoOf(files[threads[t].aifm])]
    /\ UNCHANGED <<files, VERIFY_FN, tracks, playlist_version, info_cache, call, response>>

\* self.info_cache[aifm_path] = info; return info
gti_store(t) ==
    /\ At(t, "store")
    /\ info_cache' = [p \in DOMAIN info_cache \cup {threads[t].aifm} |->
                        IF p = threads[t].aifm THEN threads[t].info ELSE info_cache[p]]
    /\ response' = InfoResponse(threads[t].info)
    /\ threads' = Return(t)
    /\ UNCHANGED <<files, VERIFY_FN, tracks, playlist_version, call>>

\* POST /api/load_upload: f.save(out)
up_save(t, a) ==
    /\ At(t, "idle")
    /\ playlist_version + Pending < MaxVersion
    /\ files' = [p \in {TRACK} |-> a]
    /\ threads' = Goto(t, "tracks")
    /\ UNCHANGED <<VERIFY_FN, tracks, playlist_version, info_cache, call, response>>

\* load_tracks: self.tracks = tracks
lt_tracks(t) ==
    /\ At(t, "tracks")
    /\ tracks' = <<TRACK>>
    /\ threads' = Goto(t, "bump")
    /\ UNCHANGED <<files, VERIFY_FN, playlist_version, info_cache, call, response>>

\* POST /api/clear: self.tracks = []
cl_tracks(t) ==
    /\ At(t, "idle")
    /\ playlist_version + Pending < MaxVersion
    /\ tracks' = <<>>
    /\ threads' = Goto(t, "bump")
    /\ UNCHANGED <<files, VERIFY_FN, playlist_version, info_cache, call, response>>

\* load_tracks and clear: self.playlist_version += 1
bump(t) ==
    /\ At(t, "bump")
    /\ playlist_version' = playlist_version + 1
    /\ threads' = Goto(t, "cache")
    /\ UNCHANGED <<files, VERIFY_FN, tracks, info_cache, call, response>>

\* load_tracks and clear: self.info_cache.clear(), then the handler returns
cache_clear(t) ==
    /\ At(t, "cache")
    /\ info_cache' = EmptyMap
    /\ response' = Ok200
    /\ threads' = Return(t)
    /\ UNCHANGED <<files, VERIFY_FN, tracks, playlist_version, call>>

NextConc ==
    \E t \in Threads :
        \/ \E index \in -1..1 : ti_check(t, index)
        \/ ti_clamp(t)
        \/ ti_read(t)
        \/ gti_lookup(t)
        \/ gti_hit(t)
        \/ gti_compute(t)
        \/ gti_store(t)
        \/ \E a \in ConcArchives : up_save(t, a)
        \/ lt_tracks(t)
        \/ cl_tracks(t)
        \/ bump(t)
        \/ cache_clear(t)

SpecConc == InitBuiltin /\ [][NextConc]_vars

TypeOK ==
    /\ DOMAIN files \subseteq {TRACK}
    /\ \A p \in DOMAIN files : files[p] \in Archives
    /\ playlist_version \in 0..MaxVersion
    /\ DOMAIN info_cache \subseteq DOMAIN files

(* ------------------- vocabulary of the properties --------------------- *)

\* the last request computed an info (cache miss) and returned it
Computed == response.kind = "info" /\ call.engine # "none"

\* the verifier of the last request returned (ok, results)
Returned == Computed /\ call.ret.kind = "returns"

Outcome == response.info.verify

FailingIn(list) == {i \in 1..Len(list) : ~list[i].ok}

\* the outcome carries exactly the list the verifier returned
SameList(details, results) ==
    /\ Len(details) = Len(results)
    /\ \A i \in 1..Len(results) :
         /\ details[i].ok = results[i].ok
         /\ details[i].path = results[i].path
         /\ details[i].reason = results[i].reason

\* the archive behind the track, when the builtin verifier serves the request
Builtin == response.kind = "info" /\ VERIFY_FN = "none"
Archive == files[TRACK]

ManifestReadable(a) ==
    a.zip /\ a.members[MANIFEST].present /\ a.members[MANIFEST].readable

\* manifest.json parses and "integrity" is missing or an object
IntegrityReadable(a) ==
    ManifestReadable(a) /\ a.doc.parses /\ ~(a.doc.isdict /\ a.doc.integrity = "nondict")

HasIntegrity(a) == a.doc.isdict /\ a.doc.integrity = "dict"

AlgorithmRejected(a) ==
    HasIntegrity(a) /\ a.doc.algorithm.present
    /\ a.doc.algorithm.str \notin {"sha256", "SHA256"}

HashedFilesUnusable(a) ==
    ~(HasIntegrity(a) /\ a.doc.hashed_files.kind = "dict"
      /\ a.doc.hashed_files.entries # <<>>)

\* a usable declaration: the per-entry loop runs
Usable(a) == IntegrityReadable(a) /\ ~AlgorithmRejected(a) /\ ~HashedFilesUnusable(a)

Declared(a) == a.doc.hashed_files.entries

\* two hex strings denote the same digest
SameDigest(x, y) ==
    \/ x = y
    \/ {x, y} = {"6e34", "6E34"}
    \/ {x, y} = {"4bf5", "4BF5"}

Exists(a, e) == a.members[e.relpath].present
Unreadable(a, e) == Exists(a, e) /\ ~a.members[e.relpath].readable
SizeDeclared(e) == e.meta.isdict /\ e.meta.bytes.kind = "int"
SizeDiffers(a, e) ==
    SizeDeclared(e) /\ e.meta.bytes.v # Len(a.members[e.relpath].data)
DigestDiffers(a, e) ==
    /\ e.meta.isdict /\ e.meta.sha256 # ""
    /\ ~SameDigest(e.meta.sha256, Sha256Hex(a.members[e.relpath].data))
Matches(a, e) ==
    /\ Exists(a, e) /\ ~Unreadable(a, e)
    /\ ~SizeDiffers(a, e) /\ ~DigestDiffers(a, e)

(* ------------------------------ claims -------------------------------- *)

\* C1: whenever a verifier (builtin or external) returns a check list with at
\* least one failing result and every failing result has path "manifest.json",
\* the outcome is ok=true with status INTACT (MANIFEST WARN), whatever ok flag
\* came with the list; and a builtin run in which every declared entry matches
\* except the one keyed "manifest.json" ends that way.
C1_ManifestOnlyFailureWarns ==
    /\ Returned =>
         LET rs == call.ret.results
         IN (FailingIn(rs) # {} /\ \A i \in FailingIn(rs) : rs[i].path = MANIFEST)
            => /\ Outcome.ok
               /\ Outcome.status = MANIFEST_WARN
               /\ SameList(Outcome.details, rs)
    /\ (Builtin /\ Usable(Archive)) =>
         LET es == Declared(Archive)
         IN ((\E i \in 1..Len(es) : es[i].relpath = MANIFEST /\ ~Matches(Archive, es[i]))
             /\ \A i \in 1..Len(es) : es[i].relpath # MANIFEST => Matches(Archive, es[i]))
            => Outcome.ok /\ Outcome.status = MANIFEST_WARN

C1_Witness ==
    /\ Returned /\ call.engine = "external" /\ ~call.ret.ok
    /\ Len(call.ret.results) = 2
    /\ call.ret.results[1].ok /\ call.ret.results[1].path = PAYLOAD
    /\ ~call.ret.results[2].ok /\ call.ret.results[2].path = MANIFEST
    /\ Outcome.status = MANIFEST_WARN

\* C2: whenever the returned check list holds a failing result whose path is
\* not "manifest.json", the outcome is ok=false with status TAMPERED, with or
\* without a "manifest.json" result, passing or failing, and whatever ok flag
\* came with the list.
C2_NonManifestFailureTampers ==
    Returned =>
        LET rs == call.ret.results
        IN (\E i \in FailingIn(rs) : rs[i].path # MANIFEST)
           => /\ ~Outcome.ok
              /\ Outcome.status = TAMPERED
              /\ SameList(Outcome.details, rs)

C2_Witness ==
    /\ Returned /\ call.engine = "external" /\ call.ret.ok
    /\ Len(call.ret.results) = 2
    /\ ~call.ret.results[1].ok /\ call.ret.results[1].path = MANIFEST
    /\ ~call.ret.results[2].ok /\ call.ret.results[2].path = PAYLOAD
    /\ Outcome.status = TAMPERED

\* C3 as stated: a returned list with no failing result yields ok=true and
\* status INTACT for every (ok flag, list) a verifier can return.
C3_NoFailureIsIntact ==
    Returned =>
        (FailingIn(call.ret.results) = {}
         => Outcome.ok /\ Outcome.status = INTACT)

\* C3 amended: the outcome is a function of the verifier's ok flag and the
\* check list, the same for both engines; with no failing result it is
\* ok=true / INTACT when the flag is true and ok=false / TAMPERED when it is
\* false, and the builtin verifier never returns a false flag with such a list.
C3_NoFailureFollowsFlag ==
    Returned =>
        (FailingIn(call.ret.results) = {}
         => /\ Outcome.ok = call.ret.ok
            /\ Outcome.status = (IF call.ret.ok THEN INTACT ELSE TAMPERED)
            /\ SameList(Outcome.details, call.ret.results)
            /\ call.engine = "builtin" => call.ret.ok)

C3_Witness ==
    /\ Returned /\ call.engine = "external" /\ ~call.ret.ok
    /\ Len(call.ret.results) = 1 /\ call.ret.results[1].ok
    /\ Outcome.status = TAMPERED

\* C4: when the archive opens but has no manifest.json member, the builtin
\* verifier yields exactly one check (path "manifest.json", ok=false, reason
\* "missing manifest.json") and the outcome is ok=true / INTACT (MANIFEST
\* WARN), the outcome also given when the only failing entry is the manifest's
\* own declared digest.
C4_MissingManifestWarns ==
    /\ (Builtin /\ Archive.zip /\ ~Archive.members[MANIFEST].present) =>
         Outcome = [ok |-> TRUE, status |-> MANIFEST_WARN,
                    details |-> <<[ok |-> FALSE, path |-> MANIFEST,
                                   reason |-> "missing manifest.json"]>>,
                    available |-> TRUE, engine |-> "builtin"]
    /\ (Builtin /\ Usable(Archive)) =>
         LET es == Declared(Archive)
         IN ((\E i \in 1..Len(es) : /\ es[i].relpath = MANIFEST
                                    /\ DigestDiffers(Archive, es[i])
                                    /\ ~SizeDiffers(Archive, es[i]))
             /\ \A i \in 1..Len(es) : es[i].relpath # MANIFEST => Matches(Archive, es[i]))
            => Outcome.ok /\ Outcome.status = MANIFEST_WARN

C4_Witness ==
    /\ Builtin /\ Computed
    /\ Archive.zip /\ ~Archive.members[MANIFEST].present
    /\ Outcome.status = MANIFEST_WARN /\ Len(Outcome.details) = 1

\* C5: when manifest.json is present and parses but its integrity declaration
\* is unusable, the builtin verifier yields exactly one failing check and
\* checks no file: path "integrity.algorithm" when algorithm is present and
\* differs from "sha256" ignoring case, otherwise path "integrity.hashed_files"
\* when hashed_files is missing, not a mapping, or empty; the outcome is
\* ok=false / TAMPERED in both cases.
C5_UnusableDeclarationTampers ==
    (Builtin /\ ManifestReadable(Archive) /\ Archive.doc.parses) =>
        /\ AlgorithmRejected(Archive) =>
             Outcome = [ok |-> FALSE, status |-> TAMPERED,
                        details |-> <<[ok |-> FALSE, path |-> "integrity.algorithm",
                                       reason |-> "unsupported algorithm: "
                                                  \o Archive.doc.algorithm.str]>>,
                        available |-> TRUE, engine |-> "builtin"]
        /\ (~AlgorithmRejected(Archive) /\ HashedFilesUnusable(Archive)) =>
             Outcome = [ok |-> FALSE, status |-> TAMPERED,
                        details |-> <<[ok |-> FALSE, path |-> "integrity.hashed_files",
                                       reason |-> "missing/empty hashed_files"]>>,
                        available |-> TRUE, engine |-> "builtin"]

\* C6: with a usable integrity declaration the builtin verifier returns exactly
\* one check per declared entry, in the mapping's order, whatever happens to an
\* entry (missing file, size mismatch, digest mismatch, failure while reading
\* its bytes).
C6_OneCheckPerEntry ==
    (Builtin /\ Usable(Archive)) =>
        LET es == Declared(Archive)
        IN /\ Len(Outcome.details) = Len(es)
           /\ \A i \in 1..Len(es) : Outcome.details[i].path = es[i].relpath

\* C7: for a declared entry whose member exists, the byte count is compared
\* before the digest: a declared integer size that differs from the actual
\* length gives the entry's check the reason "bytes mismatch: <actual> !=
\* <expected>", also when the digest differs; "sha256 mismatch" appears only
\* when the size is absent or equal.
C7_SizeBeforeDigest ==
    (Builtin /\ Usable(Archive)) =>
        LET es == Declared(Archive)
            ds == Outcome.details
        IN /\ (\A i \in 1..Len(es) : ~Unreadable(Archive, es[i]))
              => \A i \in 1..Len(es) :
                   Cardinality({k \in 1..Len(ds) : ds[k].path = es[i].relpath}) = 1
           /\ \A i \in 1..Len(es), k \in 1..Len(ds) :
                (ds[k].path = es[i].relpath /\ Exists(Archive, es[i])) =>
                    /\ SizeDiffers(Archive, es[i]) =>
                         /\ ~ds[k].ok
                         /\ ds[k].reason =
                              "bytes mismatch: "
                              \o ToString(Len(Archive.members[es[i].relpath].data))
                              \o " != " \o ToString(es[i].meta.bytes.v)
                    /\ ds[k].reason = "sha256 mismatch" =>
                         /\ ~SizeDiffers(Archive, es[i])
                         /\ DigestDiffers(Archive, es[i])

C7_Witness ==
    /\ Builtin /\ Computed /\ Usable(Archive)
    /\ \E i \in 1..Len(Declared(Archive)) :
         /\ Exists(Archive, Declared(Archive)[i])
         /\ SizeDiffers(Archive, Declared(Archive)[i])
         /\ DigestDiffers(Archive, Declared(Archive)[i])
         /\ i \in 1..Len(Outcome.details)
         /\ Outcome.details[i].reason = "bytes mismatch: 1 != 2"

\* C8: when the manifest declares sha256 (or no algorithm) and a non-empty
\* hashed_files in which every declared member is present with matching size
\* and digest, the builtin outcome is ok=true / INTACT with one passing check
\* per declared entry and no failing one.
C8_AllMatchIsIntact ==
    (Builtin /\ Usable(Archive)
     /\ \A i \in 1..Len(Declared(Archive)) : Matches(Archive, Declared(Archive)[i])) =>
        LET es == Declared(Archive)
        IN /\ Outcome.ok
           /\ Outcome.status = INTACT
           /\ Len(Outcome.details) = Len(es)
           /\ \A i \in 1..Len(es) :
                Outcome.details[i] = [ok |-> TRUE, path |-> es[i].relpath, reason |-> ""]

C8_Witness ==
    /\ Builtin /\ Computed /\ Usable(Archive)
    /\ Len(Declared(Archive)) = 2
    /\ \A i \in 1..2 :
         /\ Matches(Archive, Declared(Archive)[i])
         /\ SizeDeclared(Declared(Archive)[i])
         /\ Declared(Archive)[i].meta.sha256 # ""
    /\ Outcome.status = INTACT

\* C9: when the configured external verifier raises, or returns a value that
\* cannot be consumed, the request still returns an info: ok=false, status
\* ERROR, available=true, and one failing detail carrying the error message.
C9_VerifierFailureIsError ==
    (call.engine = "external" /\ call.ret.kind # "returns") =>
        /\ response.kind = "info"
        /\ ~Outcome.ok
        /\ Outcome.status = ERROR
        /\ Outcome.available
        /\ Len(Outcome.details) = 1
        /\ ~Outcome.details[1].ok
        /\ Outcome.details[1].reason = ExceptionMessage(call.ret)
        /\ info_cache[TRACK] = response.info

C9_Witness ==
    /\ call.engine = "external" /\ call.ret.kind = "garbage"
    /\ response.kind = "info" /\ Outcome.status = ERROR

\* the container cannot be opened, or a member the verifier reads cannot be
\* read
ArchiveFailure(a) ==
    \/ ~a.zip
    \/ (a.members[MANIFEST].present /\ ~a.members[MANIFEST].readable)
    \/ (Usable(a) /\ \E i \in 1..Len(Declared(a)) : Unreadable(a, Declared(a)[i]))

\* C10: when the container cannot be opened as an archive, or a member cannot
\* be read, the request returns an info whose verification status is ERROR or
\* UNKNOWN.
C10_ArchiveFailureIsError ==
    (Builtin /\ ArchiveFailure(Archive)) =>
        Outcome.status \in {ERROR, UNKNOWN}

\* what a dotted path resolves to in a manifest tree, null when a key is
\* missing or an intermediate value is no object
Child(x, k) == IF x.t = "dict" /\ k \in DOMAIN x.d THEN x.d[k] ELSE JNull
ValueAt(tree, path) ==
    CASE Len(path) = 1 -> Child(tree, path[1])
      [] Len(path) = 2 -> Child(Child(tree, path[1]), path[2])
      [] OTHER -> Child(Child(Child(tree, path[1]), path[2]), path[3])

\* the manifest get_track_info reads is a decodable JSON object
HasManifestObject(a) ==
    ManifestReadable(a) /\ a.doc.parses /\ a.doc.isdict

Falsy(x) == x \in {JNull, JStr(""), JInt("0"), JDict(NoItems)}

Shown == response.info.fields

\* the least element of a non-empty set of indices
Least(S) == CHOOSE i \in S : \A j \in S : i <= j

\* C11 as stated: each field shows the stringified value of the first
\* candidate path that resolves to a non-null value, and the placeholder only
\* when every candidate is missing or null.
C11_FirstNonNullCandidate ==
    (Builtin /\ HasManifestObject(Archive)) =>
        \A f \in FieldNames :
            LET cs == Candidates[f]
                hit == {i \in 1..Len(cs) : ValueAt(Archive.tree, cs[i]).t # "null"}
            IN Shown[f] = IF hit = {} THEN DefaultOf(f)
                          ELSE ValueAt(Archive.tree, cs[Least(hit)]).v

\* C11 amended: each field shows the stringified value of the first candidate
\* path that resolves to a truthy value (not null, not an empty string, zero or
\* an empty object); later candidates and the placeholder are used only when
\* every earlier candidate is missing, null or falsy.
C11_FirstTruthyCandidate ==
    /\ (Builtin /\ HasManifestObject(Archive)) =>
         \A f \in FieldNames :
             LET cs == Candidates[f]
                 hit == {i \in 1..Len(cs) : ~Falsy(ValueAt(Archive.tree, cs[i]))}
             IN Shown[f] = IF hit = {} THEN DefaultOf(f)
                           ELSE ValueAt(Archive.tree, cs[Least(hit)]).v
    /\ (Builtin /\ ~HasManifestObject(Archive)) =>
         \A f \in FieldNames : Shown[f] = DefaultOf(f)

C11_Witness ==
    /\ Builtin /\ Computed /\ HasManifestObject(Archive)
    /\ ValueAt(Archive.tree, <<"origin", "ai_platform">>) = JStr("")
    /\ ValueAt(Archive.tree, <<"ai", "system">>) = JStr("v2")
    /\ ValueAt(Archive.tree, <<"ai_system">>) = JStr("v3")
    /\ Shown.ai_system = "v2"

\* the archive's members in archive order, and what a kind resolved to
Listing == Archive.names
Resolved(kind) == response.info.assets[kind]
Listed(n) == \E i \in 1..Len(Listing) : Listing[i] = n
Before(m, n) ==
    \E i, j \in 1..Len(Listing) : i < j /\ Listing[i] = m /\ Listing[j] = n

DocKinds == {"declaration", "prompt", "lyrics"}

AllowList ==
    [declaration |-> <<".pdf", ".txt">>, prompt |-> <<".txt">>, lyrics |-> <<".txt">>]

Hints ==
    [declaration |-> {"declar", "legal", "license", "statement"},
     prompt |-> {"prompt", "suno", "udio", "instruction"},
     lyrics |-> {"lyric", "lyrics", "words", "verse"}]

\* non-directory, under metadata/ ignoring case, extension in the allow-list
Eligible(n, kind) ==
    /\ n # "" /\ Char(n, Len(n)) # "/"
    /\ StartsWith(StrLower(n), "metadata/")
    /\ \E i \in 1..Len(AllowList[kind]) : AllowList[kind][i] = PathSuffix(StrLower(n))

EligibleIn(kind) == {n \in Range(Listing) : Eligible(n, kind)}

\* the member's name, as the archive lists it, contains a hint of the kind
Hinted(n, kind) == \E h \in Hints[kind] : Contains(StrLower(n), h)

Rank(n, kind) ==
    CHOOSE i \in 1..Len(AllowList[kind]) : AllowList[kind][i] = PathSuffix(StrLower(n))

\* m comes no later than n by (extension rank, lowercase name)
NoLater(m, n, kind) ==
    \/ Rank(m, kind) < Rank(n, kind)
    \/ Rank(m, kind) = Rank(n, kind) /\ ~StrLess(StrLower(n), StrLower(m))

\* C12: for declaration, prompt and lyrics, when no eligible member matches a
\* hint, the member returned is the eligible one with the lowest extension
\* rank, ties broken by lowercase name ascending; with metadata/decl.txt and
\* metadata/decl.pdf both present and no hint match, declaration resolves to
\* the .pdf member whatever their order in the archive.
C12_LowestRankThenName ==
    (Builtin /\ Archive.zip) =>
        /\ \A kind \in DocKinds :
             (EligibleIn(kind) # {} /\ \A n \in EligibleIn(kind) : ~Hinted(n, kind)) =>
                 /\ Resolved(kind).exists
                 /\ Resolved(kind).member \in EligibleIn(kind)
                 /\ \A n \in EligibleIn(kind) : NoLater(Resolved(kind).member, n, kind)
        /\ ( /\ Listed("metadata/decl.txt") /\ Listed("metadata/decl.pdf")
             /\ \A n \in EligibleIn("declaration") : ~Hinted(n, "declaration") )
           => Resolved("declaration").member = "metadata/decl.pdf"

C12_Witness ==
    /\ Builtin /\ Computed /\ Archive.zip
    /\ Before("metadata/decl.txt", "metadata/decl.pdf")
    /\ Listed("metadata/a.txt")
    /\ \A n \in EligibleIn("declaration") : ~Hinted(n, "declaration")
    /\ Resolved("declaration").member = "metadata/decl.pdf"

\* C13: for declaration, prompt and lyrics, whenever at least one eligible
\* member has a name containing (ignoring case) one of the kind's hints, the
\* member returned is one of the hinted members, even if an un-hinted eligible
\* member has a higher-priority extension or sorts earlier by name; an
\* un-hinted member is returned only when no eligible member is hinted.
C13_HintedPoolFirst ==
    (Builtin /\ Archive.zip) =>
        \A kind \in DocKinds :
            LET hinted == {n \in EligibleIn(kind) : Hinted(n, kind)}
            IN /\ hinted # {} =>
                    Resolved(kind).exists /\ Resolved(kind).member \in hinted
               /\ (Resolved(kind).exists /\ Resolved(kind).member \notin hinted) =>
                    hinted = {} /\ Resolved(kind).member \in EligibleIn(kind)
               /\ EligibleIn(kind) = {} => ~Resolved(kind).exists

C13_Witness ==
    /\ Builtin /\ Computed /\ Archive.zip
    /\ Before("metadata/decl.pdf", "metadata/Legal.TXT")
    /\ Listed("metadata/a.txt")
    /\ Resolved("declaration").member = "metadata/Legal.TXT"
    /\ Rank("metadata/decl.pdf", "declaration") < Rank("metadata/Legal.TXT", "declaration")

\* the eight preferred cover paths: metadata/cover.* first, then cover.*
CoverExts == <<".png", ".jpg", ".jpeg", ".webp">>
CoverPath(i) ==
    (IF i <= 4 THEN "metadata/" ELSE "") \o "cover" \o CoverExts[((i - 1) % 4) + 1]

\* an image at the top level or under metadata/
FallbackImage(n) ==
    /\ \E e \in Range(IMG_EXTS) : EndsWith(StrLower(n), e)
    /\ \/ \A i \in 1..Len(n) : Char(n, i) # "/"
       \/ StartsWith(StrLower(n), "metadata/")

\* C14: cover resolution returns the first path of the preferred list that is
\* a member of the archive; only when none of the eight is present does it
\* return the first member in archive order that is an image at the top level
\* or under metadata/, and it returns none when there is no such member.
C14_PreferredThenFirstImage ==
    (Builtin /\ Archive.zip) =>
        LET present == {i \in 1..8 : Listed(CoverPath(i))}
            images == {i \in 1..Len(Listing) : FallbackImage(Listing[i])}
        IN IF present # {}
           THEN Resolved("cover").exists
                /\ Resolved("cover").member = CoverPath(Least(present))
           ELSE IF images # {}
           THEN Resolved("cover").exists
                /\ Resolved("cover").member = Listing[Least(images)]
           ELSE ~Resolved("cover").exists

C14_Witness ==
    /\ Builtin /\ Computed /\ Archive.zip
    /\ Before("Art.PNG", "cover.webp")
    /\ Before("cover.webp", "metadata/cover.jpg")
    /\ Resolved("cover").member = "metadata/cover.jpg"

\* thread t is inside the body of get_track_info for the key it missed
Computing(t) == threads[t].pc \in {"compute", "store"}

AllReturned == \A t \in Threads : threads[t].pc = "idle"

\* C15: with requests on concurrent threads, for any one cache key at most
\* one get_track_info call is computing that key at a time, so two overlapping
\* requests for the same uncached track never both verify it and both write
\* the entry.
C15_OneComputationPerKey ==
    \A t, u \in Threads :
        (t # u /\ Computing(t) /\ Computing(u)) => threads[t].aifm # threads[u].aifm

\* C16: once a playlist reload has finished and every request that overlapped
\* it has returned, every entry of info_cache is the info of the archive now
\* on disk under that path.
C16_CacheFollowsArchive ==
    AllReturned =>
        \A p \in DOMAIN info_cache : info_cache[p] = InfoOf(files[p])

\* C17: the index a track endpoint reads state.tracks with is within the
\* bounds of the list at the moment of the read, whatever load_tracks and
\* clear calls ran since the emptiness check and the clamp.
C17_IndexWithinBounds ==
    \A t \in Threads :
        threads[t].pc = "read" =>
            threads[t].index >= 0 /\ threads[t].index < Len(tracks)

====
